---- MODULE Spec2Model ----
(***************************************************************************)
(* State-machine model of quick-load-more (QLM), src/src/js/quick-load-more.js. *)
(*                                                                         *)
(* One QLM instance: the local cache, the paginator state, the slot        *)
(* ongoingRequestPromise, the promises created by get() and the transport  *)
(* requests that have not settled yet.                                     *)
(*                                                                         *)
(* Promises are jQuery 1.8 - 2.x Deferreds, the library the code is        *)
(* written against: callbacks run synchronously, in registration order, at *)
(* the moment a Deferred settles, and the value a fail filter of .then()   *)
(* returns REJECTS the derived promise (quick-load-more.js:181-184 returns *)
(* the error to keep the chain failed, 265-268 is reached only that way).  *)
(* So one settlement of a transport request runs, as one atomic step, the  *)
(* handler of populateLocalCache, the chainer, the final handler of get()  *)
(* and the re-evaluation of every get() that waits on the settled promise. *)
(* A done callback of user code may call get() from inside that step       *)
(* (test/getting.js:196-198); one such call per step is modelled.          *)
(***************************************************************************)
EXTENDS Integers, Sequences, FiniteSets, TLC

\* ---------------------------------------------------------------- bounds

\* get() calls made in one behaviour
MaxCalls == 2
\* largest numberOfItems passed to get()
MaxN == 2
\* paginator.state.count of the instance (quick-load-more.js:106 sets 50, the tests 5)
PageCount == 1
\* transport requests issued in one behaviour under Spec
MaxFetches == 3
\* largest config.lowItemThreshold tried
MaxThreshold == 1
\* items the mock service of the tests holds (test/getting.js:254)
MockItemCount == 1
\* largest paginator.state.count tried against the service of full pages
MaxPage == 2
\* longest array tried as the value of a query parameter
MaxList == 2

Null == 0

VARIABLES
    localCache,             \* the item storage (line 146): items by serial number
    paginatorState,         \* paginator.state (lines 104-107)
    ongoingRequestPromise,  \* line 154: Null or the operation whose promise it holds
    ops,                    \* promises made by get(): foreground chains and background requests
    calls,                  \* the get() calls made so far
    issued,                 \* history: the pagination state of every request issued, in order
    events,                 \* history: the events triggered, in order
    pushed,                 \* history: number of items appended to localCache
    delivered,              \* history: the items handed to callers, in delivery order
    lowItemThreshold,       \* config.lowItemThreshold (line 63)
    service,                \* what answers the requests: "any", "mock", "good" or "full"
    customConfig,           \* the argument of the constructor (line 42)
    instance,               \* "unborn", "built", or the error the constructor threw
    url                     \* history: the call of getURL made, and the string it returned

vars == <<localCache, paginatorState, ongoingRequestPromise, ops, calls, issued,
          events, pushed, delivered, lowItemThreshold, service, customConfig,
          instance, url>>

\* ------------------------------------------------------ the program state

\* The mutable state of the instance as one value, threaded through the handlers.
St ==
    [cache |-> localCache, pstate |-> paginatorState, ongoing |-> ongoingRequestPromise,
     ops |-> ops, calls |-> calls, issued |-> issued, events |-> events,
     pushed |-> pushed, delivered |-> delivered]

Install(s) ==
    /\ localCache' = s.cache
    /\ paginatorState' = s.pstate
    /\ ongoingRequestPromise' = s.ongoing
    /\ ops' = s.ops
    /\ calls' = s.calls
    /\ issued' = s.issued
    /\ events' = s.events
    /\ pushed' = s.pushed
    /\ delivered' = s.delivered

\* paginator.state of a fresh instance
InitialState == [start |-> 0, count |-> PageCount]

\* paginator.next
PaginatorNext(currentState) ==
    [currentState EXCEPT !.start = currentState.start + currentState.count]

\* triggerEvent; the history keeps, with the name of the event, the number of
\* requests issued before it was triggered and the slot as the handlers of the
\* event find it
TriggerEvent(s, event) ==
    [s EXCEPT !.events = Append(@, [name |-> event, issued |-> Len(s.issued),
                                    slot |-> s.ongoing])]

\* the operations whose transport request has not settled
Outstanding(s) == {o \in 1..Len(s.ops) : s.ops[o].status = "pending"}

\* a get() call as it is made
NewCall(n, busy) ==
    [n |-> n, status |-> "new", result |-> <<>>, via |-> "none", op |-> Null,
     waited |-> FALSE, busy |-> busy, had |-> 0, left |-> 0, bgFetches |-> 0,
     callsAtReturn |-> 0, during |-> {}]

\* a promise made by get(): kind "fg" is the chain of lines 254-268, "bg" the
\* promise of the background request of line 285
NewOp(kind, owner, n) ==
    [kind |-> kind, owner |-> owner, n |-> n, status |-> "pending",
     state |-> InitialState, fetches |-> 0, exhausted |-> FALSE, failed |-> FALSE,
     flagged |-> 0, overlapped |-> FALSE, first |-> 0, got |-> <<>>, waiters |-> <<>>]

\* $.ajax of populateLocalCache: the request carries paginator.state as it is now
Ajax(s, o) ==
    [s EXCEPT !.issued = Append(@, s.pstate),
              !.ops[o].state = s.pstate,
              !.ops[o].overlapped = @ \/ Outstanding(s) \ {o} # {},
              !.ops[o].first = IF @ = 0 THEN Len(s.issued) + 1 ELSE @,
              !.ops[o].fetches = @ + 1]

\* F applied to the value of v: the statement that yields v has run before the
\* statements of F do (and TLC evaluates v once)
Bind(v, F(_)) == CHOOSE y \in {F(x) : x \in {v}} : TRUE

\* ------------------------------------------------------------------ get()

\* a get() issued synchronously by the done callback of call c; c = Null: none
NoCallback == [c |-> Null, n |-> 0]

Callbacks == {NoCallback} \cup [c : 1..MaxCalls, n : 0..MaxN]

\* mutant of SpliceTaken: the items are taken from the end of the cache
SpliceTakenFromEnd(cache, n) ==
    SubSeq(cache, Len(cache) - (IF n < Len(cache) THEN n ELSE Len(cache)) + 1, Len(cache))

\* mutant of SpliceTaken: one item fewer is handed out than is removed
SpliceTakenShort(cache, n) ==
    SubSeq(cache, 1, (IF n < Len(cache) THEN n ELSE Len(cache)) - 1)

\* localCache.splice(0, numberOfItems): the removed prefix and what is left
SpliceTaken(cache, n) == SubSeq(cache, 1, IF n < Len(cache) THEN n ELSE Len(cache))

\* mutant of SpliceLeft: slice instead of splice, nothing is removed
SpliceLeftKeep(cache, n) == cache

SpliceLeft(cache, n) == SubSeq(cache, (IF n < Len(cache) THEN n ELSE Len(cache)) + 1, Len(cache))

\* the promise of call c is resolved with items
ResolveCall(s, c, items) ==
    [s EXCEPT !.calls[c].status = "resolved",
              !.calls[c].result = items,
              !.delivered = @ \o items]

\* lines 232-236: a request is recorded in the slot; attach to its promise
Wait(s, c) ==
    [s EXCEPT !.calls[c].status = "waiting",
              !.calls[c].waited = TRUE,
              !.ops[s.ongoing].waiters = Append(@, c)]

\* lines 239-272: the cache is insufficient; loadStarted, first request of the
\* chain, and the promise of the whole chain goes into the slot
StartChain(s, c) ==
    LET o == Len(s.ops) + 1
        s1 == TriggerEvent(s, "loadStarted")
        s2 == [s1 EXCEPT !.ops = Append(@, NewOp("fg", c, s.calls[c].n))]
        s3 == Ajax(s2, o)
    IN  [s3 EXCEPT !.ongoing = o,
                   !.calls[c].status = "chain",
                   !.calls[c].via = "chain",
                   !.calls[c].had = Len(s.cache),
                   !.calls[c].op = o]

\* mutant of Insufficient: <= for <
InsufficientOrEqual(cache, numberOfItems) == Len(cache) <= numberOfItems

\* line 239: the number of items in the local cache is insufficient
Insufficient(cache, numberOfItems) == Len(cache) < numberOfItems

\* mutant of RunningLow: <= for <
RunningLowOrEqual(cache) == Len(cache) <= lowItemThreshold

\* line 284: are we running low on items
RunningLow(cache) == Len(cache) < lowItemThreshold

\* mutant of Background: the background request triggers loadStarted
BackgroundLoud(s) ==
    LET o == Len(s.ops) + 1
        s1 == [TriggerEvent(s, "loadStarted") EXCEPT !.ops = Append(@, NewOp("bg", Null, 0))]
        s2 == Ajax(s1, o)
    IN  [s2 EXCEPT !.ongoing = o]

\* lines 283-286: the background request; its promise goes into the slot
Background(s) ==
    LET o == Len(s.ops) + 1
        s1 == [s EXCEPT !.ops = Append(@, NewOp("bg", Null, 0))]
        s2 == Ajax(s1, o)
    IN  [s2 EXCEPT !.ongoing = o]

RECURSIVE GetEval(_, _, _)

\* the foreground chains that are not over yet
PendingChains(s) == {o \in Outstanding(s) : s.ops[o].kind = "fg"}

\* a get(n) made by user code (at top level, or from a done callback)
UserGet(s, n, cb) ==
    Bind([s EXCEPT !.calls = Append(@, [NewCall(n, Cardinality(Outstanding(s)))
                                           EXCEPT !.during = PendingChains(s)])],
         LAMBDA s1 : GetEval(s1, Len(s1.calls), cb))

\* the done callback of call c runs as soon as its promise is resolved
Callback(s, c, cb) ==
    IF cb.c = c /\ Len(s.calls) < MaxCalls THEN UserGet(s, cb.n, NoCallback) ELSE s

\* lines 274-288: enough items in the cache
ServeFromCache(s, c, cb) ==
    LET n == s.calls[c].n
        Low(s1) == IF RunningLow(s1.cache) THEN Background(s1) ELSE s1
        Note(s2) == [s2 EXCEPT !.calls[c].via = "cache",
                               !.calls[c].had = Len(s.cache),
                               !.calls[c].left = Len(s2.cache),
                               !.calls[c].callsAtReturn = Len(s2.calls),
                               !.calls[c].bgFetches = Len(s2.issued) - Len(s.issued)]
        Done(s3) == Callback(s3, c, cb)
    IN  Bind(Bind(Bind(ResolveCall([s EXCEPT !.cache = SpliceLeft(s.cache, n)], c,
                                   SpliceTaken(s.cache, n)),
                       Low), Note), Done)

\* get, lines 229-289, for the call c
GetEval(s, c, cb) ==
    IF s.ongoing # Null THEN Wait(s, c)
    ELSE IF Insufficient(s.cache, s.calls[c].n) THEN StartChain(s, c)
    ELSE ServeFromCache(s, c, cb)

\* ------------------------------------------------------------ settlement

RECURSIVE RunWaiters(_, _, _)

\* the callbacks attached at lines 233-235 run in the order they were attached
RunWaiters(s, ws, cb) ==
    IF ws = <<>> THEN s
    ELSE Bind(GetEval(s, Head(ws), cb), LAMBDA s1 : RunWaiters(s1, Tail(ws), cb))

RECURSIVE RejectCalls(_, _)

\* the promises derived from a rejected promise are rejected
RejectCalls(s, ws) ==
    IF ws = <<>> THEN s
    ELSE RejectCalls([s EXCEPT !.calls[Head(ws)].status = "rejected"], Tail(ws))

\* the items a response holds, numbered in the order they are appended
NewItems(from, k) == [i \in 1..k |-> from + i]

\* mutant of Predicate: the chain stops one item short
PredicateOffByOne(s, o) == Len(s.cache) < s.ops[o].n - 1

\* lines 244-246: the predicate of the chainer
Predicate(s, o) == Len(s.cache) < s.ops[o].n

\* mutant of ChainDone: the chain runs the low-item check of line 284 as well
ChainDoneReplenish(s, o, cb) ==
    LET c == s.ops[o].owner
        n == s.ops[o].n
        s1 == [s EXCEPT !.cache = SpliceLeft(s.cache, n)]
        s2 == TriggerEvent(s1, "loadFinished")
        s3 == ResolveCall([s2 EXCEPT !.ops[o].status = "resolved"], c,
                          SpliceTaken(s.cache, n))
        Low(s4) == IF RunningLow(s4.cache) THEN Background(s4) ELSE s4
        Note(s5) == [s5 EXCEPT !.calls[c].left = Len(s5.cache),
                               !.calls[c].callsAtReturn = Len(s5.calls),
                               !.calls[c].bgFetches = Len(s5.issued) - Len(s.issued)]
    IN  Bind(Bind(Bind(Bind(s3, Low), Note), LAMBDA s6 : Callback(s6, c, cb)),
             LAMBDA s7 : RunWaiters(s7, s.ops[o].waiters, cb))

\* lines 257-264: the chain is done; hand out the items, loadFinished
ChainDone(s, o, cb) ==
    LET c == s.ops[o].owner
        n == s.ops[o].n
        s1 == [s EXCEPT !.cache = SpliceLeft(s.cache, n)]
        s2 == TriggerEvent(s1, "loadFinished")
        s3 == ResolveCall([s2 EXCEPT !.ops[o].status = "resolved"], c,
                          SpliceTaken(s.cache, n))
        Note(s5) == [s5 EXCEPT !.calls[c].left = Len(s5.cache),
                               !.calls[c].callsAtReturn = Len(s5.calls),
                               !.calls[c].bgFetches = Len(s5.issued) - Len(s.issued)]
    IN  Bind(Bind(Bind(s3, Note), LAMBDA s4 : Callback(s4, c, cb)),
             LAMBDA s6 : RunWaiters(s6, s.ops[o].waiters, cb))

\* mutant of Chainer: the chain never issues a second request
ChainerOnce(s, o, cb) == ChainDone(s, o, cb)

\* createPromiseChainer, lines 298-309
Chainer(s, o, cb) ==
    IF Predicate(s, o) THEN Ajax(s, o) ELSE ChainDone(s, o, cb)

\* history: the k items of the response to the request of operation o, each
\* with its place in the sequence the service serves by start and count
Received(s, o, k) ==
    [i \in 1..k |-> [item |-> s.pushed + i, position |-> s.ops[o].state.start + i]]

\* mutant of PopulateDone: the pagination state advances by the number of items
PopulateDoneByItems(s, o, r) ==
    LET s1 == [s EXCEPT !.ongoing = Null,
                        !.cache = @ \o NewItems(s.pushed, r.k),
                        !.pushed = @ + r.k,
                        !.pstate = [@ EXCEPT !.start = @ + r.k],
                        !.ops[o].exhausted = @ \/ r.exhausted,
                        !.ops[o].flagged = @ + (IF r.exhausted THEN 1 ELSE 0),
                        !.ops[o].got = @ \o Received(s, o, r.k)]
    IN  IF r.exhausted THEN TriggerEvent(s1, "exhausted") ELSE s1

\* mutant of PopulateDone: exhausted is triggered only by a response without items
PopulateDoneEmptyOnly(s, o, r) ==
    LET s1 == [s EXCEPT !.ongoing = Null,
                        !.cache = @ \o NewItems(s.pushed, r.k),
                        !.pushed = @ + r.k,
                        !.pstate = PaginatorNext(@),
                        !.ops[o].exhausted = @ \/ r.exhausted,
                        !.ops[o].flagged = @ + (IF r.exhausted THEN 1 ELSE 0),
                        !.ops[o].got = @ \o Received(s, o, r.k)]
    IN  IF r.exhausted /\ r.k = 0 THEN TriggerEvent(s1, "exhausted") ELSE s1

\* lines 161-180: the done handler of populateLocalCache
PopulateDone(s, o, r) ==
    LET s1 == [s EXCEPT !.ongoing = Null,
                        !.cache = @ \o NewItems(s.pushed, r.k),
                        !.pushed = @ + r.k,
                        !.pstate = PaginatorNext(@),
                        !.ops[o].exhausted = @ \/ r.exhausted,
                        !.ops[o].flagged = @ + (IF r.exhausted THEN 1 ELSE 0),
                        !.ops[o].got = @ \o Received(s, o, r.k)]
    IN  IF r.exhausted THEN TriggerEvent(s1, "exhausted") ELSE s1

\* mutant of PopulateFail: the slot keeps the promise of the failed request
PopulateFailKeepsSlot(s, o) == [s EXCEPT !.ops[o].failed = TRUE]

\* mutant of PopulateFail: a failed request moves the pagination state forward
PopulateFailAdvances(s, o) ==
    [s EXCEPT !.ongoing = Null, !.ops[o].failed = TRUE, !.pstate = PaginatorNext(@)]

\* lines 181-184: the fail handler of populateLocalCache
PopulateFail(s, o) == [s EXCEPT !.ongoing = Null, !.ops[o].failed = TRUE]

\* mutant of ChainFail: the value the fail handler returns fulfils the promise
ChainFailResolves(s, o) ==
    LET s1 == TriggerEvent(TriggerEvent(s, "loadFinished"), "error")
        s2 == [s1 EXCEPT !.ops[o].status = "resolved",
                         !.calls[s.ops[o].owner].status = "resolved"]
    IN  RunWaiters(s2, s.ops[o].waiters, NoCallback)

\* mutant of ChainFail: a failed chain triggers error but not loadFinished
ChainFailNotFinished(s, o) ==
    LET s1 == TriggerEvent(s, "error")
        s2 == [s1 EXCEPT !.ops[o].status = "rejected",
                         !.calls[s.ops[o].owner].status = "rejected"]
    IN  RejectCalls(s2, s.ops[o].waiters)

\* mutant of ChainFail: error is triggered before loadFinished
ChainFailErrorFirst(s, o) ==
    LET s1 == TriggerEvent(TriggerEvent(s, "error"), "loadFinished")
        s2 == [s1 EXCEPT !.ops[o].status = "rejected",
                         !.calls[s.ops[o].owner].status = "rejected"]
    IN  RejectCalls(s2, s.ops[o].waiters)

\* lines 265-268: the fail handler of the chain
ChainFail(s, o) ==
    LET s1 == TriggerEvent(TriggerEvent(s, "loadFinished"), "error")
        s2 == [s1 EXCEPT !.ops[o].status = "rejected",
                         !.calls[s.ops[o].owner].status = "rejected"]
    IN  RejectCalls(s2, s.ops[o].waiters)

\* the request of operation o settles with response r
OnSettle(s, o, r, cb) ==
    IF r.ok
    THEN Bind(PopulateDone(s, o, r),
              LAMBDA s1 : IF s.ops[o].kind = "fg" THEN Chainer(s1, o, cb)
                          ELSE RunWaiters([s1 EXCEPT !.ops[o].status = "resolved"],
                                          s.ops[o].waiters, cb))
    ELSE LET s1 == PopulateFail(s, o)
         IN  IF s.ops[o].kind = "fg" THEN ChainFail(s1, o)
             ELSE RejectCalls([s1 EXCEPT !.ops[o].status = "rejected"],
                              s.ops[o].waiters)

\* ----------------------------------------------------------- construction

\* Strings are sequences of characters. A configuration object is given or not
\* (new QLM()), and holds serviceURL or not.
Undefined == [defined |-> FALSE, keys |-> {}, serviceURL |-> <<>>]

\* the configuration of the tests (test/getting.js:7-9)
TestConfig == [defined |-> TRUE, keys |-> {"serviceURL"}, serviceURL |-> <<"u">>]

CustomConfigs ==
    {Undefined, TestConfig,
     [defined |-> TRUE, keys |-> {}, serviceURL |-> <<>>],
     [defined |-> TRUE, keys |-> {"serviceURL"}, serviceURL |-> <<>>]}

\* mutant of Construct: serviceURL is not looked at
ConstructUnchecked(config) == IF ~config.defined THEN "TypeError" ELSE "built"

\* lines 42-49: reading a property of undefined throws a TypeError, a missing or
\* empty serviceURL throws Error('No service URL provided.')
Construct(config) ==
    IF ~config.defined THEN "TypeError"
    ELSE IF "serviceURL" \notin config.keys \/ config.serviceURL = <<>> THEN "Error"
    ELSE "built"

\* ---------------------------------------------------------------- getURL

RECURSIVE Join(_, _)

\* Array.prototype.join
Join(strings, separator) ==
    IF strings = <<>> THEN <<>>
    ELSE IF Len(strings) = 1 THEN strings[1]
    ELSE strings[1] \o separator \o Join(Tail(strings), separator)

\* lines 201-208: the query parameter made of one key of a mapping
QueryParameter(parameterName, value) ==
    IF value.isArray
    THEN Join([i \in 1..Len(value.items) |-> parameterName \o <<"=">> \o value.items[i]],
              <<"&">>)
    ELSE parameterName \o <<"=">> \o value.items[1]

RECURSIVE QueryParameters(_)

\* lines 196-212: one query parameter per key, for each argument in turn
QueryParameters(arguments) ==
    IF arguments = <<>> THEN <<>>
    ELSE [i \in 1..Len(Head(arguments)) |->
              QueryParameter(Head(arguments)[i].name, Head(arguments)[i].value)]
         \o QueryParameters(Tail(arguments))

\* getURL, lines 190-215
GetURL(arguments) ==
    customConfig.serviceURL \o <<"?">> \o Join(QueryParameters(arguments), <<"&">>)

NoURL == [arguments |-> <<>>, result |-> <<>>]

\* --------------------------------------------------------------- service

Failure == [ok |-> FALSE, k |-> 0, exhausted |-> FALSE]

\* the mock service of the tests (test/getting.js:252-273): items.slice(start,
\* start + count), exhausted when start + count > items.length
MockResponse(state) ==
    LET avail == IF state.start >= MockItemCount THEN 0 ELSE MockItemCount - state.start
    IN  [ok |-> TRUE,
         k |-> IF avail < state.count THEN avail ELSE state.count,
         exhausted |-> state.start + state.count > MockItemCount]

\* a service that always succeeds with at least one item and never signals exhaustion
GoodResponses == [ok : {TRUE}, k : 1..PageCount, exhausted : {FALSE}]

\* a service that never fails and answers every request with a full page
FullPage(state) == [ok |-> TRUE, k |-> state.count, exhausted |-> FALSE]

\* the responses the request of operation o can settle with
Responses(o) ==
    IF service = "mock" THEN {MockResponse(ops[o].state)}
    ELSE IF service = "good" THEN GoodResponses
    ELSE IF service = "full" THEN {FullPage(ops[o].state)}
    ELSE {Failure} \cup [ok : {TRUE}, k : 0..PageCount, exhausted : BOOLEAN]

\* --------------------------------------------------------------- actions

InitWith(services) ==
    /\ localCache = <<>>
    /\ paginatorState = InitialState
    /\ ongoingRequestPromise = Null
    /\ ops = <<>>
    /\ calls = <<>>
    /\ issued = <<>>
    /\ events = <<>>
    /\ pushed = 0
    /\ delivered = <<>>
    /\ lowItemThreshold \in 0..MaxThreshold
    /\ service \in services
    /\ customConfig = TestConfig
    /\ instance = Construct(TestConfig)
    /\ url = NoURL

Init == InitWith({"any", "mock"})

\* the callback did run: its call was resolved in this step and made a call
CallbackRan(s, cb) ==
    \/ cb = NoCallback
    \/ /\ cb # NoCallback
       /\ cb.c <= Len(calls)
       /\ calls[cb.c].status # "resolved"
       /\ s.calls[cb.c].status = "resolved"
       /\ Len(s.calls) = Len(calls) + 1

\* user code calls get(n), the behaviour having fewer than limit calls so far
GetWithin(limit, n, cap) ==
    /\ instance = "built"
    /\ Len(calls) < limit
    /\ \E s \in {UserGet(St, n, NoCallback)} :
           /\ Len(s.issued) <= cap
           /\ Install(s)
    /\ UNCHANGED <<lowItemThreshold, service, customConfig, instance, url>>

\* user code calls get(n)
Get(n, cap) == GetWithin(MaxCalls, n, cap)

\* the transport request of operation o settles
Settle(o, r, cb, cap) ==
    /\ o \in Outstanding(St)
    /\ r \in Responses(o)
    /\ \E s \in {OnSettle(St, o, r, cb)} :
           /\ CallbackRan(s, cb)
           /\ Len(s.issued) <= cap
           /\ Install(s)
    /\ UNCHANGED <<lowItemThreshold, service, customConfig, instance, url>>

\* the done callbacks that can make a call in this step
CallbacksNow ==
    {NoCallback} \cup
    (IF Len(calls) < MaxCalls
     THEN [c : {c \in 1..Len(calls) : calls[c].status \in {"waiting", "chain"}}, n : 0..MaxN]
     ELSE {})

Next ==
    \/ \E n \in 0..MaxN : Get(n, MaxFetches)
    \/ \E o \in Outstanding(St) : \E r \in Responses(o), cb \in CallbacksNow :
          Settle(o, r, cb, MaxFetches)

Spec == Init /\ [][Next]_vars

\* ------------------------------------------- a service that never runs dry

\* more requests than MaxCalls calls can cause when every response holds an item
NoCap == MaxCalls * (MaxN + MaxThreshold + 2)

LiveInit == InitWith({"good"})

LiveNext ==
    \/ \E n \in 0..MaxN : Get(n, NoCap)
    \/ \E o \in Outstanding(St) : \E r \in Responses(o), cb \in CallbacksNow :
          Settle(o, r, cb, NoCap)

\* the transport settles every request it was given
LiveSpec ==
    /\ LiveInit
    /\ [][LiveNext]_vars
    /\ \A o \in 1..MaxCalls :
          WF_vars(\E r \in GoodResponses : Settle(o, r, NoCallback, NoCap))

\* lines 146-154: nothing cached, nothing requested, and empty histories
Fresh ==
    /\ localCache = <<>>
    /\ ongoingRequestPromise = Null
    /\ ops = <<>>
    /\ calls = <<>>
    /\ issued = <<>>
    /\ events = <<>>
    /\ pushed = 0
    /\ delivered = <<>>

\* --------------------------------- full pages, instances of any page size

\* the largest numberOfItems tried: more than the largest page
PagesMaxN == MaxPage + 1

\* more requests than MaxCalls calls can cause when every page is full
PagesCap == MaxCalls * (PagesMaxN + 2)

\* an instance configured with paginator.state.count and lowItemThreshold
\* (test/getting.js:108-116), against the service of full pages
PagesInit ==
    /\ Fresh
    /\ paginatorState \in {[start |-> 0, count |-> c] : c \in 1..MaxPage}
    /\ lowItemThreshold \in {0, paginatorState.count}
    /\ service = "full"
    /\ customConfig = TestConfig
    /\ instance = Construct(TestConfig)
    /\ url = NoURL

PagesNext ==
    \/ \E n \in 0..PagesMaxN : Get(n, PagesCap)
    \/ \E o \in Outstanding(St) : \E r \in Responses(o), cb \in CallbacksNow :
          Settle(o, r, cb, PagesCap)

PagesSpec == PagesInit /\ [][PagesNext]_vars

\* model sanity: PagesCap never holds back a request
PagesCapIsSlack == service = "full" => Len(issued) < PagesCap

\* ------------------------------------- callers behind an outstanding chain

\* the owner of a chain and two callers behind it
WaitersCalls == MaxCalls + 1

WaitersNext ==
    \/ \E n \in 0..MaxN : GetWithin(WaitersCalls, n, MaxFetches)
    \/ \E o \in Outstanding(St) : \E r \in Responses(o) :
          Settle(o, r, NoCallback, MaxFetches)

WaitersSpec == InitWith({"any"}) /\ [][WaitersNext]_vars

\* ------------------------------------------------------- the constructor

\* new QLM(customConfig) has not run yet; the variables of the instance hold
\* what lines 58-154 would give them
CtorInit ==
    /\ Fresh
    /\ paginatorState = InitialState
    /\ lowItemThreshold \in 0..MaxThreshold
    /\ service \in {"any", "mock"}
    /\ customConfig \in CustomConfigs
    /\ instance = "unborn"
    /\ url = NoURL

\* new QLM(customConfig)
New ==
    /\ instance = "unborn"
    /\ instance' = Construct(customConfig)
    /\ UNCHANGED <<localCache, paginatorState, ongoingRequestPromise, ops, calls,
                   issued, events, pushed, delivered, lowItemThreshold, service,
                   customConfig, url>>

CtorNext ==
    \/ New
    \/ \E n \in 0..MaxN : Get(n, MaxFetches)
    \/ \E o \in Outstanding(St) : \E r \in Responses(o), cb \in CallbacksNow :
          Settle(o, r, cb, MaxFetches)

CtorSpec == CtorInit /\ [][CtorNext]_vars

\* ------------------------------------------------------- calls of getURL

\* the parameter names and the values (as strings) tried
ParameterNames == {<<"a">>, <<"b">>}
ParameterStrings == {<<"1">>, <<"2">>}

\* a value is a string or an array of strings (line 204)
ParameterValues ==
    [isArray : {FALSE}, items : {<<v>> : v \in ParameterStrings}]
    \cup [isArray : {TRUE},
          items : UNION {[1..k -> ParameterStrings] : k \in 0..MaxList}]

\* an object, as the list of its keys and values in the order $.each visits them
Mappings(names, values) ==
    {m \in UNION {[1..k -> [name : names, value : values]] :
                      k \in 0..Cardinality(names)} :
        \A i, j \in 1..Len(m) : m[i].name = m[j].name => i = j}

\* getURL is called with one mapping or with two (test/getting.js:19-41, line 159)
ArgumentLists(mappings) ==
    {<<p>> : p \in mappings} \cup {<<p, s>> : p, s \in mappings}

\* qlm.__getURL(arguments), once
CallGetURL(arguments) ==
    /\ instance = "built"
    /\ url = NoURL
    /\ url' = [arguments |-> arguments, result |-> GetURL(arguments)]
    /\ UNCHANGED <<localCache, paginatorState, ongoingRequestPromise, ops, calls,
                   issued, events, pushed, delivered, lowItemThreshold, service,
                   customConfig, instance>>

UrlInit == InitWith({"any"})

UrlNext ==
    \E arguments \in (IF url = NoURL
                      THEN ArgumentLists(Mappings(ParameterNames, ParameterValues))
                      ELSE {}) :
        CallGetURL(arguments)

UrlSpec == UrlInit /\ [][UrlNext]_vars

\* model sanity: NoCap never holds back a request
NoCapIsSlack == Len(issued) < NoCap

\* model sanity: the slot never holds a settled promise
SlotIsPending ==
    ongoingRequestPromise # Null => ops[ongoingRequestPromise].status = "pending"

\* ---------------------------------------------------------------- claims

\* C1: at most one transport request is outstanding at any time: while a
\* request has not settled, no get() call causes another request to be issued.
C1_SingleFlight == Cardinality(Outstanding(St)) <= 1

\* no request has failed so far
NoFailure == \A o \in 1..Len(ops) : ~ops[o].failed

\* C2: every request is issued with the pagination state obtained by advancing
\* the state of the previously issued request (the first one with the initial
\* state), and no two outstanding requests carry the same pagination state.
\* Stated for the runs in which no request has failed, where the state a request
\* must carry is not in doubt.
C2_StateAdvances ==
    NoFailure =>
        /\ \A i \in 1..Len(issued) :
              issued[i] = IF i = 1 THEN InitialState ELSE PaginatorNext(issued[i - 1])
        /\ \A o1, o2 \in Outstanding(St) : o1 # o2 => ops[o1].state # ops[o2].state

\* the numbers 1..n in order
Iota(n) == [i \in 1..n |-> i]

\* C4: every item appended to the cache is handed to at most one get() call and
\* at most once, and the calls take their items from the front of the cache in
\* the order the items were appended: the items delivered so far, in delivery
\* order, followed by the cache are the items appended so far, in append order.
C4_DeliveredOnceInOrder ==
    /\ delivered \o localCache = Iota(pushed)
    /\ \A c1, c2 \in 1..Len(calls) :
          \A i \in 1..Len(calls[c1].result), j \in 1..Len(calls[c2].result) :
              calls[c1].result[i] = calls[c2].result[j] => c1 = c2 /\ i = j
    /\ \A c \in 1..Len(calls) : \A i \in 1..(Len(calls[c].result) - 1) :
          calls[c].result[i + 1] = calls[c].result[i] + 1

\* C4 happens: a later call was served from the cache while the chain of an
\* earlier call was still fetching, and the earlier call got the next two items
C4_Witness ==
    \E c1, c2 \in 1..Len(calls) :
        /\ c1 < c2
        /\ Len(calls[c1].result) >= 2
        /\ calls[c2].result # <<>>
        /\ calls[c2].result[1] < calls[c1].result[1]

\* C5: once a successful response has signalled exhaustion to a foreground
\* chain, the chain issues no further request, also when the cache still holds
\* fewer items than asked for.
C5_StopsOnExhaustion ==
    \A o \in 1..Len(ops) :
        ops[o].kind = "fg" /\ ops[o].exhausted => ops[o].status # "pending"

\* the requests the mock service needs to hand out all its items and signal exhaustion
MockPages == (MockItemCount \div PageCount) + 1

\* C6: against the service of the tests, which has MockItemCount items and then
\* signals exhaustion, a get(n) asking for more than exist is done after
\* finitely many requests: its chain issues no more requests than the service
\* needs to hand out everything and signal exhaustion.
C6_ExhaustedGetTerminates ==
    service = "mock" =>
        \A o \in 1..Len(ops) : ops[o].kind = "fg" => ops[o].fetches <= MockPages

\* C7: when a request of a foreground chain fails, the promise of that get(n)
\* fails (it is never resolved, neither with items nor with an empty value) and
\* the chain issues no further request.
C7_FailureFailsCaller ==
    \A o \in 1..Len(ops) :
        ops[o].kind = "fg" /\ ops[o].failed =>
            /\ ops[o].status = "rejected"
            /\ calls[ops[o].owner].status = "rejected"
            /\ calls[ops[o].owner].result = <<>>

\* C7 happens: a chain has failed at its second request
C7_Witness ==
    \E o \in 1..Len(ops) :
        ops[o].kind = "fg" /\ ops[o].failed /\ ops[o].fetches >= 2

\* C8 as claimed: get(0) called when no request is outstanding issues no request
\* at all, neither foreground nor background, and resolves with an empty list.
C8_GetZeroNoFetch ==
    \A c \in 1..Len(calls) :
        calls[c].n = 0 /\ calls[c].busy = 0 =>
            /\ calls[c].status = "resolved"
            /\ calls[c].result = <<>>
            /\ calls[c].op = Null
            /\ calls[c].bgFetches = 0

\* C8 as amended: get(0) called when no request is outstanding starts no
\* foreground chain and resolves at once with an empty list; it starts one
\* background request exactly when the cache holds fewer than lowItemThreshold
\* items.
C8_GetZeroBackgroundOnly ==
    \A c \in 1..Len(calls) :
        calls[c].n = 0 /\ calls[c].busy = 0 =>
            /\ calls[c].status = "resolved"
            /\ ~calls[c].waited
            /\ calls[c].result = <<>>
            /\ calls[c].op = Null
            /\ calls[c].bgFetches = IF calls[c].left < lowItemThreshold THEN 1 ELSE 0

\* C8 happens: a get(0) on an idle instance has started a background request,
\* and another one has not
C8_Witness ==
    \E c1, c2 \in 1..Len(calls) :
        /\ calls[c1].n = 0 /\ calls[c1].busy = 0 /\ calls[c1].bgFetches = 1
        /\ calls[c2].n = 0 /\ calls[c2].busy = 0 /\ calls[c2].bgFetches = 0

RECURSIVE DeliveredCount(_)

\* the number of items the calls cs have been resolved with
DeliveredCount(cs) ==
    IF cs = <<>> THEN 0 ELSE Len(Head(cs).result) + DeliveredCount(Tail(cs))

\* C9: whenever no request is outstanding, the cache length is non-negative and
\* equals the number of items appended by successful requests minus the number
\* of items the callers have received.
C9_BufferAccounting ==
    Outstanding(St) = {} =>
        /\ Len(localCache) >= 0
        /\ Len(localCache) = pushed - DeliveredCount(calls)

\* C9 happens: idle, after a failed request, with items delivered and items left
C9_Witness ==
    /\ Outstanding(St) = {}
    /\ \E o \in 1..Len(ops) : ops[o].failed
    /\ DeliveredCount(calls) > 0
    /\ localCache # <<>>

\* C10: a get(n) served from the cache starts exactly one background request if
\* the cache, after the n items are removed, holds fewer than lowItemThreshold
\* items, and none if it holds lowItemThreshold items or more.
C10_BackgroundWhenLow ==
    \A c \in 1..Len(calls) :
        calls[c].via = "cache" =>
            calls[c].bgFetches = IF calls[c].left < lowItemThreshold THEN 1 ELSE 0

\* C10 happens: on an idle instance one call left fewer than lowItemThreshold
\* items and started a request, another left exactly lowItemThreshold and did not
C10_Witness ==
    /\ lowItemThreshold >= 1
    /\ \E c1, c2 \in 1..Len(calls) :
          /\ calls[c1].via = "cache" /\ calls[c1].busy = 0 /\ ~calls[c1].waited
          /\ calls[c1].left < lowItemThreshold /\ calls[c1].bgFetches = 1
          /\ calls[c2].via = "cache" /\ calls[c2].busy = 0 /\ ~calls[c2].waited
          /\ calls[c2].left = lowItemThreshold /\ calls[c2].bgFetches = 0

\* C3: against a service whose every response succeeds, holds at least one
\* item and never signals exhaustion, every get(n) eventually resolves, and
\* with exactly n items, also when other get() calls are made meanwhile.
C3_ResolvesWithN ==
    \A c \in 1..MaxCalls :
        (Len(calls) >= c) ~>
            (/\ Len(calls) >= c
             /\ calls[c].status = "resolved"
             /\ Len(calls[c].result) = calls[c].n)

\* C3 happens: a chain of two requests or more has resolved its call with n
\* items, and another call was made while a request was outstanding
C3_Witness ==
    /\ service = "good"
    /\ \E c \in 1..Len(calls) :
          /\ calls[c].status = "resolved" /\ calls[c].via = "chain"
          /\ ops[calls[c].op].fetches >= 2
          /\ Len(calls[c].result) = calls[c].n
    /\ \E c \in 1..Len(calls) : calls[c].busy >= 1 /\ calls[c].status = "resolved"

CeilDiv(m, c) == (m + c - 1) \div c

\* C12: on an instance with b cached items and no request outstanding, against
\* a service that never fails and returns full pages of c items, a get(n) with
\* n > b during which no other call is made issues exactly ceil((n - b) / c)
\* requests, resolves with n items and leaves b + c * ceil((n - b) / c) - n
\* items in the cache.
C12_FetchesPerCall ==
    \A i \in 1..Len(calls) :
        /\ calls[i].via = "chain" /\ calls[i].status = "resolved"
        /\ calls[i].busy = 0 /\ ~calls[i].waited
        /\ calls[i].callsAtReturn = i
        => LET b == calls[i].had
               n == calls[i].n
               c == paginatorState.count
           IN  /\ n > b
               /\ ops[calls[i].op].fetches = CeilDiv(n - b, c)
               /\ Len(calls[i].result) = n
               /\ calls[i].left = b + c * CeilDiv(n - b, c) - n

\* the call i found the instance idle, was served by a chain, and no other
\* call was made before it returned
LoneChainCall(i) ==
    /\ calls[i].via = "chain" /\ calls[i].status = "resolved"
    /\ calls[i].busy = 0 /\ ~calls[i].waited
    /\ calls[i].callsAtReturn = i

\* C12 happens: with pages of two items or more, one call needed two requests
\* and left items behind, and another call found items in the cache
C12_Witness ==
    /\ paginatorState.count >= 2
    /\ \E i \in 1..Len(calls) :
          LoneChainCall(i) /\ ops[calls[i].op].fetches >= 2 /\ calls[i].left >= 1
    /\ \E i \in 1..Len(calls) : LoneChainCall(i) /\ calls[i].had >= 1

\* every call so far was a get(count) made when no request was outstanding and
\* no earlier call was unfinished
ConsecutivePageCalls ==
    \A i \in 1..Len(calls) :
        /\ calls[i].n = paginatorState.count
        /\ calls[i].busy = 0 /\ ~calls[i].waited
        /\ calls[i].status = "resolved" => calls[i].callsAtReturn = i

\* C13: with lowItemThreshold equal to the page size c and a service that
\* returns full pages, k consecutive get(c) calls on a fresh instance, each made
\* after the previous one resolved, issue exactly k requests in total, one per
\* call, and the cache is empty every time a call resolves.
C13_OneFetchPerPageCall ==
    lowItemThreshold = paginatorState.count /\ ConsecutivePageCalls =>
        /\ Len(issued) = Len(calls)
        /\ \A i \in 1..Len(calls) :
              /\ ops[calls[i].op].fetches = 1
              /\ calls[i].status = "resolved" =>
                    /\ Len(calls[i].result) = paginatorState.count
                    /\ calls[i].left = 0
        /\ Outstanding(St) = {} => localCache = <<>>

\* C13 happens: two consecutive get(c) with c >= 2 = lowItemThreshold have
\* resolved, each by a chain of its own
C13_Witness ==
    /\ lowItemThreshold = paginatorState.count
    /\ paginatorState.count >= 2
    /\ ConsecutivePageCalls
    /\ Len(calls) = 2
    /\ calls[1].status = "resolved" /\ calls[2].status = "resolved"
    /\ Len(events) = 4
    /\ events[3].name = "loadStarted" /\ events[2].name = "loadFinished"

\* the number of requests that have settled with success
Successes ==
    Len(issued) - Cardinality(Outstanding(St))
                - Cardinality({o \in 1..Len(ops) : ops[o].failed})

\* no request was issued while the request of another promise was outstanding
NoOverlap == \A o \in 1..Len(ops) : ~ops[o].overlapped

\* C14: with the default paginator each successful request increases start by
\* exactly count, whatever the number of items in the response, and leaves count
\* and every other field unchanged (a failed request changes nothing); so the
\* k-th request of a run of non-overlapping requests that all succeed is issued
\* with start = (k - 1) * count.
C14_StartAdvancesByCount ==
    /\ paginatorState = [InitialState EXCEPT !.start = InitialState.count * Successes]
    /\ NoFailure /\ NoOverlap =>
          \A k \in 1..Len(issued) :
              issued[k] = [InitialState EXCEPT !.start = (k - 1) * InitialState.count]

\* C14 happens: three requests, none overlapping, none failed, and one of the
\* responses held no item
C14_Witness ==
    /\ NoFailure /\ NoOverlap
    /\ Len(issued) = 3
    /\ Successes >= 2
    /\ pushed < Successes

\* the number of events named event among the first p events triggered
EventCount(event, p) == Cardinality({i \in 1..p : events[i].name = event})

\* the foreground chains started so far
Chains == {o \in 1..Len(ops) : ops[o].kind = "fg"}

\* the loadStarted events, and the foreground chains, in the order they came
StartedEvents == SelectSeq(events, LAMBDA e : e.name = "loadStarted")
ChainsInOrder == SelectSeq(ops, LAMBDA op : op.kind = "fg")

\* C15: every get(n) that finds the slot empty and fewer than n items in the
\* cache triggers exactly one loadStarted, before the first request of its
\* chain is issued, and exactly one loadFinished when the chain is over, by
\* success or by failure, and none while a request of the chain is still to
\* settle; at every point of the event sequence the loadFinished events are no
\* more than the loadStarted events.
C15_OneStartOneFinish ==
    /\ Len(StartedEvents) = Len(ChainsInOrder)
    /\ \A j \in 1..Len(ChainsInOrder) :
           StartedEvents[j].issued = ChainsInOrder[j].first - 1
    /\ EventCount("loadStarted", Len(events)) = Cardinality(Chains)
    /\ Cardinality(Chains) = Cardinality({c \in 1..Len(calls) : calls[c].via = "chain"})
    /\ EventCount("loadFinished", Len(events))
           = Cardinality({o \in Chains : ops[o].status # "pending"})
    /\ \A o \in Chains : ops[o].failed => ops[o].status # "pending"
    /\ \A p \in 0..Len(events) :
           EventCount("loadFinished", p) <= EventCount("loadStarted", p)

\* C15 happens: one chain is over by success, another by failure
C15_Witness ==
    /\ \E o \in Chains : ops[o].status = "resolved" /\ ops[o].fetches >= 2
    /\ \E o \in Chains : ops[o].status = "rejected"
    /\ EventCount("loadFinished", Len(events)) = 2

RECURSIVE FlaggedResponses(_)

\* the number of successful responses to the promises os for which
\* isServerExhausted was true
FlaggedResponses(os) ==
    IF os = <<>> THEN 0 ELSE Head(os).flagged + FlaggedResponses(Tail(os))

\* C16: the number of exhausted events triggered equals the number of
\* successful responses, to foreground and background requests alike, for which
\* the exhaustion predicate is true: one event per such response, none for a
\* response without the flag and none for a failed request.
C16_ExhaustedPerFlaggedResponse ==
    EventCount("exhausted", Len(events)) = FlaggedResponses(ops)

\* C16 happens: a background and a foreground response were flagged, one of
\* them holding items, and another request failed or was not flagged
C16_Witness ==
    /\ \E o \in 1..Len(ops) : ops[o].kind = "bg" /\ ops[o].flagged = 1
    /\ \E o \in Chains : ops[o].flagged = 1
    /\ pushed >= 1
    /\ Len(issued) - Cardinality(Outstanding(St)) > FlaggedResponses(ops)

RECURSIVE Flatten(_)

\* the concatenation of the lists ls
Flatten(ls) == IF ls = <<>> THEN <<>> ELSE Head(ls) \o Flatten(Tail(ls))

\* the key=value pairs of one key: one per element of a list, else one
PairsOfKey(name, value) ==
    IF value.isArray THEN [i \in 1..Len(value.items) |-> name \o <<"=">> \o value.items[i]]
    ELSE <<name \o <<"=">> \o value.items[1]>>

\* the key=value pairs of the mappings ms, in argument, key and list order
PairsOf(ms) ==
    Flatten([a \in 1..Len(ms) |->
                Flatten([i \in 1..Len(ms[a]) |-> PairsOfKey(ms[a][i].name, ms[a][i].value)])])

\* C17: the URL built from a list of parameter mappings is serviceURL + '?'
\* followed by the key=value pairs joined with '&': mappings in argument order,
\* keys in their own order, one pair per element of a list value and one pair
\* for any other value; no parameter at all yields serviceURL + '?'.
C17_URLIsJoinedPairs ==
    url # NoURL =>
        url.result = customConfig.serviceURL \o <<"?">> \o Join(PairsOf(url.arguments), <<"&">>)

\* C18: constructing an instance with no configuration, or with a configuration
\* that has no serviceURL, fails synchronously: the constructor throws, no
\* instance is returned, no request is issued and no event is triggered.
C18_NoServiceURLNoInstance ==
    instance # "unborn" /\ (~customConfig.defined \/ "serviceURL" \notin customConfig.keys) =>
        /\ instance \in {"Error", "TypeError"}
        /\ calls = <<>> /\ ops = <<>>
        /\ issued = <<>>
        /\ events = <<>>

\* C18 happens: the constructor was given a configuration without serviceURL
\* and threw
C18_Witness ==
    /\ customConfig.defined /\ "serviceURL" \notin customConfig.keys
    /\ instance = "Error"

\* the calls attached to the promise of operation o (lines 233-235)
WaitersOf(o) == {ops[o].waiters[i] : i \in 1..Len(ops[o].waiters)}

\* C19: a get(n) called while the slot is set issues no request and removes
\* nothing from the cache until the operation it waits on settles; once that
\* operation has settled, by success or by failure, the call has been
\* re-evaluated as a fresh get(n): it was served from the cache, started a
\* chain of its own, or waits on the operation that is in the slot now.
C19_WaiterReevaluated ==
    \A c \in 1..Len(calls) :
        calls[c].waited =>
            /\ calls[c].status = "waiting" =>
                  /\ calls[c].result = <<>> /\ calls[c].op = Null
                  /\ \E o \in Outstanding(St) : c \in WaitersOf(o)
            /\ calls[c].status # "waiting" => calls[c].via \in {"cache", "chain"}

\* C20: in every reachable state the slot is set if and only if a transport
\* request is outstanding: it is set for every request issued, the second and
\* later requests of a chain included, and it is cleared when the request it
\* stands for settles, not by the settlement of another request.
C20_SlotIffOutstanding ==
    /\ ongoingRequestPromise # Null <=> Outstanding(St) # {}
    /\ ongoingRequestPromise # Null => Outstanding(St) = {ongoingRequestPromise}

\* the foreground chains that fail in this step
FailingChains == {o \in Chains : ops[o].status = "pending" /\ ops'[o].status = "rejected"}

\* C21: when a request of a foreground chain fails, the events triggered are
\* exactly one loadFinished followed by exactly one error, in that order, and
\* the slot is already empty when the first of them is triggered.
C21_FailureEvents ==
    [][\A o \in FailingChains :
          /\ ops'[o].failed
          /\ events' = events \o
                 <<[name |-> "loadFinished", issued |-> Len(issued), slot |-> Null],
                   [name |-> "error", issued |-> Len(issued), slot |-> Null]>>]_vars

\* C21 happens: a chain has failed at its second request while the request of
\* another operation was outstanding, and error is the last event so far
C21_Witness ==
    \E o \in Chains :
        /\ ops[o].failed /\ ops[o].fetches >= 2
        /\ Outstanding(St) # {}
        /\ events[Len(events)].name = "error"

\* C22: the pagination state is advanced exactly once per successful request,
\* in the step in which that request settles, and no other step changes it:
\* not a failed request, not the issuing of a request, not a get() served from
\* the cache.
C22_AdvancedOnlyBySuccess ==
    [][/\ Successes' \in {Successes, Successes + 1}
       /\ paginatorState' = IF Successes' = Successes + 1
                            THEN PaginatorNext(paginatorState)
                            ELSE paginatorState]_vars

\* C22 happens: a request has failed, another has succeeded, and a call was
\* served from the cache and started a background request
C22_Witness ==
    /\ \E o \in 1..Len(ops) : ops[o].failed
    /\ Successes >= 1
    /\ paginatorState.start = Successes * paginatorState.count
    /\ \E c \in 1..Len(calls) : calls[c].via = "cache" /\ calls[c].bgFetches = 1

\* the only outstanding request, that of the chain o, settles in this step with
\* a successful response that holds no item and does not signal exhaustion
EmptyPageFor(o) ==
    /\ Outstanding(St) = {o} /\ ops[o].kind = "fg"
    /\ Successes' = Successes + 1
    /\ pushed' = pushed
    /\ ops'[o].flagged = ops[o].flagged

\* C23: a successful response that holds no item and does not signal
\* exhaustion is treated as exhaustion: the chain issues no further request and
\* its get(n) resolves with the items there are.
C23_EmptyPageStopsChain ==
    [][\A o \in Chains :
          EmptyPageFor(o) =>
              /\ ops'[o].status = "resolved"
              /\ ops'[o].fetches = ops[o].fetches
              /\ calls'[ops[o].owner].status = "resolved"]_vars

\* this step is a get() made by user code at top level: one call more, and no
\* request settles
GetStep ==
    /\ Len(calls') = Len(calls) + 1
    /\ Len(ops') >= Len(ops)
    /\ \A o \in 1..Len(ops) : ops'[o].status = ops[o].status

\* C24: with the slot empty and at least n items in the cache, get(n) resolves
\* at call time, before any request settles, with exactly the first n items of
\* the cache in cache order, and the cache afterwards is the previous cache
\* without that prefix.
C24_ServedPrefixAtCallTime ==
    [][GetStep /\ ongoingRequestPromise = Null
               /\ Len(localCache) >= calls'[Len(calls')].n =>
          LET c == Len(calls')
              n == calls'[c].n
          IN  /\ calls'[c].status = "resolved"
              /\ calls'[c].result = SubSeq(localCache, 1, n)
              /\ localCache' = SubSeq(localCache, n + 1, Len(localCache))
              /\ delivered' = delivered \o SubSeq(localCache, 1, n)]_vars

\* C24 happens: a call was served at call time from a cache that held more
\* items than it asked for
C24_Witness ==
    \E c \in 1..Len(calls) :
        /\ calls[c].via = "cache" /\ ~calls[c].waited
        /\ calls[c].n >= 1
        /\ calls[c].had > calls[c].n
        /\ localCache # <<>>
        /\ calls[c].result = <<localCache[1] - 1>>

\* the calls w1 and w2 were made, in this order, while the same foreground
\* chain was outstanding
SameChainCallers(w1, w2) ==
    /\ w1 < w2
    /\ calls[w1].during \cap calls[w2].during # {}

\* C25: callers that call get() while a foreground chain is outstanding are
\* served in the order they called: if W1 called before W2 during the same
\* chain, W2 is not handed items from the cache before W1 has been handed its
\* items (stated for a W1 that asks for items and whose promise has not failed).
C25_WaitersServedInOrder ==
    \A w1, w2 \in 1..Len(calls) :
        /\ SameChainCallers(w1, w2)
        /\ calls[w1].n >= 1 /\ calls[w1].status # "rejected"
        /\ calls[w2].result # <<>>
        => /\ calls[w1].result # <<>>
           /\ calls[w1].result[1] < calls[w2].result[1]

\* a background request settles in this step
BackgroundSettles ==
    \E o \in 1..Len(ops) :
        ops[o].kind = "bg" /\ ops[o].status = "pending" /\ ops'[o].status # "pending"

\* C26: a get(n) served from the cache triggers no event itself, and the
\* background request it may start triggers neither loadStarted nor
\* loadFinished, when it is issued or when it settles: in the step in which a
\* background request settles no loadFinished is triggered, and only the chains
\* that calls waiting behind it start trigger a loadStarted.
C26_QuietBackground ==
    [][/\ GetStep /\ calls'[Len(calls')].via = "cache" => events' = events
       /\ BackgroundSettles =>
             /\ EventCount("loadFinished", Len(events))' = EventCount("loadFinished", Len(events))
             /\ EventCount("loadStarted", Len(events))' - EventCount("loadStarted", Len(events))
                    = Cardinality(Chains') - Cardinality(Chains)]_vars

\* C26 happens: a background request has settled with success and a call that
\* waited behind it has started a chain
C26_Witness ==
    \E o \in 1..Len(ops) :
        /\ ops[o].kind = "bg" /\ ops[o].status = "resolved"
        /\ ops[o].waiters # <<>>
        /\ calls[ops[o].waiters[1]].via = "chain"

\* the background requests that fail in this step
FailingBackgrounds ==
    {o \in 1..Len(ops) :
        ops[o].kind = "bg" /\ ops[o].status = "pending" /\ ops'[o].status = "rejected"}

PositionOf(j) ==
    LET o == CHOOSE o \in 1..Len(ops) : \E i \in 1..Len(ops[o].got) : ops[o].got[i].item = j
        i == CHOOSE i \in 1..Len(ops[o].got) : ops[o].got[i].item = j
    IN  ops[o].got[i].position

AppendedBy(o) == {ops[o].got[i].item : i \in 1..Len(ops[o].got)}

\* the cache as the set of its items
Cached(s) == {s.cache[i] : i \in 1..Len(s.cache)}

\* the requests that get(n), called in state s, issues at call time
IssuedByGet(s, n) ==
    LET t == UserGet(s, n, NoCallback)
    IN  SubSeq(t.issued, Len(s.issued) + 1, Len(t.issued))

\* C29: when a foreground chain fails at its k-th request, the items appended by
\* its first k - 1 requests are all still in the cache, the pagination state is
\* the one the failed request was issued with, and the request that a get()
\* called next issues carries that same state.
C29_FailedChainKeepsItems ==
    [][\A o \in FailingChains :
          /\ AppendedBy(o) \subseteq Cached(St')
          /\ paginatorState' = ops[o].state
          /\ \A n \in 0..MaxN : \A i \in 1..Len(IssuedByGet(St', n)) :
                 IssuedByGet(St', n)[i] = ops[o].state]_vars

====
